---- MODULE Spec2Model ----
(***************************************************************************)
(* Work-log post pipeline of nickjwells/worklog: the thread-merging        *)
(* scripts (smart-merge, merge-threads-opus, merge-threads-local), the     *)
(* classifiers (categorize, categorize-local) and the functions they are   *)
(* built from (shouldMerge, mergePosts, groupByTimeProximity,              *)
(* detectThreads, categorizePost).                                         *)
(*                                                                         *)
(* A post is a record [id, content, timestamp, category, curated].         *)
(*   timestamp  the value of new Date(p.timestamp).getTime(), epoch ms     *)
(*   content    a sequence of lexemes; each lexeme stands for a literal    *)
(*              piece of text with a fixed number of characters (LexLen).  *)
(*              A regular expression anchored with ^ is a test of the      *)
(*              first lexeme; an unanchored one a test of any lexeme.      *)
(*   category   "update", "thought", or "none" (the optional field absent) *)
(***************************************************************************)
EXTENDS Integers, Sequences, FiniteSets, TLC

VARIABLES
  file,          \* data.posts as persisted in posts.json
  pc,            \* the position of the running script's main()
  data,          \* data.posts as read by the running script
  sorted,        \* smart-merge main: the ascending copy it iterates
  i,             \* the loop index of main (1-based here, 0-based in the code)
  currentThread, \* smart-merge main: the thread being accumulated
  finalPosts,    \* the output list under construction
  threadsFound,  \* the groups logged as merged ("Thread found", "Merging indices")
  timeGroups,    \* merge-threads-opus main: result of groupByTimeProximity
  inflight,      \* merge-threads-opus main: the groups whose judgment has been requested and not yet received
  reply,         \* the response of client.messages.create that main resumes with
  runs,          \* number of completed runs of the script
  results,       \* categorize main: the Map from post id to {category, curated}
  arg,           \* pure-function checks: the argument list
  arg2,          \* pure-function checks: a permutation of arg
  result         \* pure-function checks: the value returned

vars == <<file, pc, data, sorted, i, currentThread, finalPosts, threadsFound,
          timeGroups, inflight, reply, runs, results, arg, arg2, result>>

(***************************************************************************)
(* Bounds of the model.                                                    *)
(***************************************************************************)
MaxPosts == 3

MaxRuns == 2

(***************************************************************************)
(* Content: lexemes and their lengths in characters.                       *)
(***************************************************************************)
Prose100 == "<100 characters of plain prose>"

Prose200 == "<200 characters of plain prose>"

Prose50 == "<50 characters of plain prose>"

Separator == "\n\n"

LexLen(lex) ==
  CASE lex = "Completed " -> 10
    [] lex = "Gym "       -> 4
    [] lex = "And "       -> 4
    [] lex = "Noted "     -> 6
    [] lex = "export."    -> 7
    [] lex = "it."        -> 3
    [] lex = Separator    -> 2
    [] lex = Prose100     -> 100
    [] lex = Prose200     -> 200
    [] lex = Prose50      -> 50
    [] lex = "lesson"     -> 6
    [] lex = "I think "   -> 8
    [] lex = "decided to " -> 11
    [] lex = "strategy"   -> 8
    [] lex = "management for Jan" -> 18
    [] lex = "So I'm going to " -> 16
    [] lex = "rewrite the importer next." -> 26
    [] lex = "It'll take about two days." -> 26
    [] OTHER              -> 1

RECURSIVE length(_)
\* String.prototype.length of a content.
length(content) ==
  IF content = <<>> THEN 0
  ELSE LexLen(Head(content)) + length(Tail(content))

RECURSIVE join(_)
\* contents.join('\n\n') of a list of contents.
join(contents) ==
  IF contents = <<>> THEN <<>>
  ELSE IF Len(contents) = 1 THEN contents[1]
  ELSE contents[1] \o <<Separator>> \o join(Tail(contents))

(***************************************************************************)
(* Array.prototype.sort with a timestamp comparator.  The sort is stable:  *)
(* entries whose comparator result is 0 keep their arrival order.          *)
(* undefined elements are moved to the end without calling the comparator. *)
(***************************************************************************)
Undefined == [undefined |-> TRUE]

IsPost(p) == "id" \in DOMAIN p

RECURSIVE insertAscending(_, _)
\* x placed after every entry whose timestamp is <= its own.
insertAscending(x, s) ==
  IF s = <<>> THEN <<x>>
  ELSE IF Head(s).timestamp <= x.timestamp
       THEN <<Head(s)>> \o insertAscending(x, Tail(s))
       ELSE <<x>> \o s

RECURSIVE sortAscending(_)
\* [...posts].sort((a, b) => time(a) - time(b))
sortAscending(posts) ==
  IF posts = <<>> THEN <<>>
  ELSE insertAscending(posts[Len(posts)], sortAscending(SubSeq(posts, 1, Len(posts) - 1)))

RECURSIVE insertDescending(_, _)
\* x placed after every entry whose timestamp is >= its own.
insertDescending(x, s) ==
  IF s = <<>> THEN <<x>>
  ELSE IF Head(s).timestamp >= x.timestamp
       THEN <<Head(s)>> \o insertDescending(x, Tail(s))
       ELSE <<x>> \o s

RECURSIVE sortDefinedDescending(_)
sortDefinedDescending(posts) ==
  IF posts = <<>> THEN <<>>
  ELSE insertDescending(posts[Len(posts)],
                        sortDefinedDescending(SubSeq(posts, 1, Len(posts) - 1)))

\* Mutant: the final sort is missing; the list stays in the order it was built.
sortDescending_asBuilt(posts) == posts

\* posts.sort((a, b) => time(b) - time(a)), undefined elements last.
sortDescending(posts) ==
  sortDefinedDescending(SelectSeq(posts, IsPost))
    \o SelectSeq(posts, LAMBDA p : ~IsPost(p))

(***************************************************************************)
(* smart-merge: the pattern tests.                                         *)
(***************************************************************************)
\* CONTINUATION_PATTERNS.some(p => p.test(content)): /^and /i, /^so i/i, ...
isContinuation(content) ==
  /\ content # <<>>
  /\ Head(content) \in {"And ", "So I'm going to "}

\* STANDALONE_UPDATE_PATTERNS.some(p => p.test(content)): /^completed /i, /^gym/i, ...
isStandaloneUpdate(content) ==
  /\ content # <<>>
  /\ Head(content) \in {"Completed ", "Gym "}

TIME_THRESHOLD_MS == 5 * 60 * 1000

Abs(x) == IF x < 0 THEN -x ELSE x

\* Mutant: the veto for different categories across a standalone update
\* (lines 81-85) is missing.
shouldMerge_noCategoryVeto(post1, post2) ==
  LET time1 == post1.timestamp
      time2 == post2.timestamp
      timeDiff == Abs(time2 - time1)
      laterPost == IF time2 > time1 THEN post2 ELSE post1
  IN
  IF isStandaloneUpdate(post1.content) /\ isStandaloneUpdate(post2.content)
  THEN FALSE
  ELSE IF timeDiff > TIME_THRESHOLD_MS
  THEN FALSE
  ELSE IF /\ post1.category = "thought"
          /\ post2.category = "thought"
          /\ \/ isContinuation(laterPost.content)
             \/ (length(post1.content) > 100 /\ length(post2.content) > 100)
  THEN TRUE
  ELSE isContinuation(laterPost.content)

shouldMerge(post1, post2) ==
  LET time1 == post1.timestamp
      time2 == post2.timestamp
      timeDiff == Abs(time2 - time1)
      laterPost == IF time2 > time1 THEN post2 ELSE post1
  IN
  IF /\ post1.category # post2.category
     /\ (isStandaloneUpdate(post1.content) \/ isStandaloneUpdate(post2.content))
  THEN FALSE
  ELSE IF isStandaloneUpdate(post1.content) /\ isStandaloneUpdate(post2.content)
  THEN FALSE
  ELSE IF timeDiff > TIME_THRESHOLD_MS
  THEN FALSE
  ELSE IF /\ post1.category = "thought"
          /\ post2.category = "thought"
          /\ \/ isContinuation(laterPost.content)
             \/ (length(post1.content) > 100 /\ length(post2.content) > 100)
  THEN TRUE
  ELSE isContinuation(laterPost.content)

\* Mutant: the id is taken from the first post handed over, without sorting.
mergePosts_firstArrived(posts) ==
  LET srt == sortAscending(posts)
  IN [id        |-> posts[1].id,
      content   |-> join([k \in 1..Len(srt) |-> srt[k].content]),
      timestamp |-> srt[1].timestamp,
      category  |-> IF \E k \in 1..Len(srt) : srt[k].category = "thought"
                    THEN "thought" ELSE "update",
      curated   |-> \E k \in 1..Len(srt) : srt[k].curated = TRUE]

\* Mutant: the flags are those of the earliest member.
mergePosts_firstFlags(posts) ==
  LET srt == sortAscending(posts)
  IN [id        |-> srt[1].id,
      content   |-> join([k \in 1..Len(srt) |-> srt[k].content]),
      timestamp |-> srt[1].timestamp,
      category  |-> IF srt[1].category = "thought" THEN "thought" ELSE "update",
      curated   |-> srt[1].curated = TRUE]

\* mergePosts of smart-merge; merge-threads-opus has the same function.
\* Only called with a list of posts (no undefined element; see MergeCrashes).
mergePosts(posts) ==
  LET srt == sortAscending(posts)
  IN [id        |-> srt[1].id,
      content   |-> join([k \in 1..Len(srt) |-> srt[k].content]),
      timestamp |-> srt[1].timestamp,
      category  |-> IF \E k \in 1..Len(srt) : srt[k].category = "thought"
                    THEN "thought" ELSE "update",
      curated   |-> \E k \in 1..Len(srt) : srt[k].curated = TRUE]

(***************************************************************************)
(* Input collections.  A collection holds posts with unique ids; the id of *)
(* a post is its position in the initial file.                             *)
(***************************************************************************)
Minute == 60 * 1000

NoReply == [kind |-> "none"]

SeqsUpTo(S, n) == UNION {[1..k -> S] : k \in 0..n}

\* The posts.json files with at most MaxPosts posts whose content, timestamp,
\* category and curated flag are drawn from the given sets.
Collections(Contents, Times, Flags) ==
  {[k \in 1..Len(c) |-> [id        |-> k,
                         content   |-> c[k][1],
                         timestamp |-> c[k][2],
                         category  |-> c[k][3][1],
                         curated   |-> c[k][3][2]]] :
     c \in SeqsUpTo(Contents \X Times \X Flags, MaxPosts)}

Idle ==
  /\ data = <<>> /\ sorted = <<>> /\ i = 0 /\ currentThread = <<>>
  /\ finalPosts = <<>> /\ threadsFound = <<>> /\ timeGroups = <<>>
  /\ inflight = {} /\ reply = NoReply /\ runs = 0 /\ results = <<>> /\ arg = <<>> /\ arg2 = <<>> /\ result = <<>>

(***************************************************************************)
(* smart-merge (the Rule Oracle pipeline): main().                         *)
(***************************************************************************)
RuleContents ==
  { <<"Completed ", "export.">>,   \* standalone update shape, short
    <<"Gym ", Prose100>>,          \* standalone update shape, over 100 characters
    <<"And ", "it.">>,             \* continuation marker, short
    <<"Noted ", Prose100>> }       \* neither, over 100 characters

RuleTimes == {0, 5 * Minute, 5 * Minute + 1}

RuleFlags == {<<"update", FALSE>>, <<"thought", FALSE>>}

InitRule ==
  /\ file \in Collections(RuleContents, RuleTimes, RuleFlags)
  /\ pc = "start"
  /\ Idle

\* Lines 141-156: read posts.json, sort ascending, empty accumulators.
SmartLoad ==
  /\ pc = "start"
  /\ data' = file
  /\ sorted' = sortAscending(file)
  /\ finalPosts' = <<>>
  /\ currentThread' = <<>>
  /\ threadsFound' = <<>>
  /\ i' = 1
  /\ pc' = "loop"
  /\ UNCHANGED <<file, timeGroups, inflight, reply, runs, results, arg, arg2, result>>

\* What "finalize current thread" pushes to finalPosts (lines 172-183, 189-200).
finalized(thread) ==
  IF Len(thread) > 1 THEN <<mergePosts(thread)>>
  ELSE IF Len(thread) = 1 THEN <<thread[1]>>
  ELSE <<>>

\* What it logs as "Thread found".
logged(thread) == IF Len(thread) > 1 THEN <<thread>> ELSE <<>>

\* Lines 158-186: one iteration of the for loop.
SmartLoop ==
  /\ pc = "loop"
  /\ i <= Len(sorted)
  /\ LET post == sorted[i] IN
       IF Len(currentThread) = 0
       THEN /\ currentThread' = <<post>>
            /\ UNCHANGED <<finalPosts, threadsFound>>
       ELSE IF shouldMerge(currentThread[Len(currentThread)], post)
       THEN /\ currentThread' = Append(currentThread, post)
            /\ UNCHANGED <<finalPosts, threadsFound>>
       ELSE /\ finalPosts' = finalPosts \o finalized(currentThread)
            /\ threadsFound' = threadsFound \o logged(currentThread)
            /\ currentThread' = <<post>>
  /\ i' = i + 1
  /\ UNCHANGED <<file, pc, data, sorted, timeGroups, inflight, reply, runs, results, arg, arg2, result>>

\* Lines 188-211: the last thread, the descending sort and the write.
SmartSave ==
  /\ pc = "loop"
  /\ i > Len(sorted)
  /\ finalPosts' = sortDescending(finalPosts \o finalized(currentThread))
  /\ threadsFound' = threadsFound \o logged(currentThread)
  /\ file' = finalPosts'
  /\ runs' = runs + 1
  /\ pc' = "done"
  /\ UNCHANGED <<data, sorted, i, currentThread, timeGroups, inflight, reply, results, arg, arg2, result>>

\* The script is run again on the file it wrote.
SmartRerun ==
  /\ pc = "done"
  /\ runs < MaxRuns
  /\ pc' = "start"
  /\ UNCHANGED <<file, data, sorted, i, currentThread, finalPosts, threadsFound,
                 timeGroups, inflight, reply, runs, results, arg, arg2, result>>

NextRule == SmartLoad \/ SmartLoop \/ SmartSave \/ SmartRerun

SpecRule == InitRule /\ [][NextRule]_vars

(***************************************************************************)
(* Claims about the Rule Oracle pipeline, checked under SpecRule.          *)
(***************************************************************************)
Members(thread) == {thread[k] : k \in 1..Len(thread)}

Threads == {threadsFound[k] : k \in 1..Len(threadsFound)}

\* C1: running the Rule-Oracle pipeline on its own output returns that
\* output unchanged: when a second (or later) run has written the file, the
\* file equals what that run read.
C1_Idempotent ==
  (pc = "done" /\ runs >= 2) => file = data

C5_OnlyThoughtsMerged ==
  \A t \in Threads :
    /\ \A p \in Members(t) : p.category = "thought"
    /\ \A k \in 1..(Len(t) - 1) : t[k + 1].timestamp - t[k].timestamp <= 5 * Minute

\* C6: two entries that each have a standalone-update shape never end up in
\* the same merged entry, whatever lies between them in the chain.
C6_UpdatesNeverMergedTogether ==
  \A t \in Threads :
    \A k, m \in 1..Len(t) :
      (k # m /\ isStandaloneUpdate(t[k].content)) => ~isStandaloneUpdate(t[m].content)

\* C11: a run of the pipeline writes its entries sorted by timestamp
\* descending (newest first), whatever the order of the input and whichever
\* merges it performed.
C11_OutputDescending ==
  pc = "done" =>
    \A k \in 1..(Len(file) - 1) : file[k].timestamp >= file[k + 1].timestamp

\* A run has ended that read its input in ascending order, merged a thread
\* and wrote it after a newer entry.
C11_Witness ==
  /\ pc = "done"
  /\ threadsFound # <<>>
  /\ Len(file) >= 2
  /\ file[1].timestamp > file[2].timestamp
  /\ \E k \in 1..(Len(data) - 1) : data[k].timestamp < data[k + 1].timestamp

(***************************************************************************)
(* The temporal groupers: groupByTimeProximity (merge-threads-opus and     *)
(* merge-threads hold the same function) and detectThreads                 *)
(* (merge-threads-local).                                                  *)
(***************************************************************************)
\* TIME_THRESHOLD_MS of merge-threads-opus and merge-threads (10 minutes).
GROUP_TIME_THRESHOLD_MS == 10 * 60 * 1000

RECURSIVE groupLoop(_, _, _, _)
\* The for loop of groupByTimeProximity over the posts still to visit, and
\* the push of the last group after it.
groupLoop(rest, groups, currentGroup, threshold) ==
  IF rest = <<>>
  THEN IF Len(currentGroup) > 0 THEN Append(groups, currentGroup) ELSE groups
  ELSE LET post == Head(rest) IN
       IF Len(currentGroup) = 0
       THEN groupLoop(Tail(rest), groups, <<post>>, threshold)
       ELSE LET lastPost == currentGroup[Len(currentGroup)]
                timeDiff == post.timestamp - lastPost.timestamp
            IN IF timeDiff <= threshold
               THEN groupLoop(Tail(rest), groups, Append(currentGroup, post), threshold)
               ELSE groupLoop(Tail(rest), Append(groups, currentGroup), <<post>>, threshold)

\* Mutant: the gap compared with < instead of <=.
groupByTimeProximity_strict(posts) ==
  groupLoop(sortAscending(posts), <<>>, <<>>, GROUP_TIME_THRESHOLD_MS - 1)

\* Mutant: the copy is not sorted before the sweep.
groupByTimeProximity_unsorted(posts) ==
  groupLoop(posts, <<>>, <<>>, GROUP_TIME_THRESHOLD_MS)

groupByTimeProximity(posts) ==
  groupLoop(sortAscending(posts), <<>>, <<>>, GROUP_TIME_THRESHOLD_MS)

THREAD_THRESHOLD_MS == 5 * 60 * 1000

MIN_THOUGHT_LENGTH == 100

RECURSIVE detectLoop(_, _, _)
\* The for loop of detectThreads and the push of the last thread after it.
detectLoop(rest, threads, thread) ==
  IF rest = <<>>
  THEN IF Len(thread) > 0 THEN Append(threads, thread) ELSE threads
  ELSE LET post == Head(rest) IN
       IF Len(thread) = 0
       THEN detectLoop(Tail(rest), threads, <<post>>)
       ELSE LET lastPost == thread[Len(thread)]
                timeDiff == post.timestamp - lastPost.timestamp
                lastIsThought == \/ lastPost.category = "thought"
                                 \/ length(lastPost.content) > MIN_THOUGHT_LENGTH
                currentIsThought == \/ post.category = "thought"
                                    \/ length(post.content) > MIN_THOUGHT_LENGTH
            IN IF /\ timeDiff <= THREAD_THRESHOLD_MS
                  /\ \/ (lastIsThought /\ currentIsThought)
                     \/ timeDiff <= 2 * 60 * 1000
               THEN detectLoop(Tail(rest), threads, Append(thread, post))
               ELSE detectLoop(Tail(rest), Append(threads, thread), <<post>>)

detectThreads(posts) == detectLoop(sortAscending(posts), <<>>, <<>>)

GroupContents == { <<"Noted ", "it.">>, <<"Noted ", Prose100>> }

GroupTimes == {0, 2 * Minute, 5 * Minute, 10 * Minute, 20 * Minute, 20 * Minute + 1}

GroupFlags == {<<"update", FALSE>>, <<"thought", FALSE>>}

InitGroup ==
  /\ arg \in Collections(GroupContents, GroupTimes, GroupFlags)
  /\ pc = "call"
  /\ file = <<>> /\ data = <<>> /\ sorted = <<>> /\ i = 0 /\ currentThread = <<>>
  /\ finalPosts = <<>> /\ threadsFound = <<>> /\ timeGroups = <<>>
  /\ inflight = {} /\ reply = NoReply /\ runs = 0 /\ results = <<>> /\ arg2 = <<>> /\ result = <<>>

\* groupByTimeProximity(arg) is called.
CallGroupByTimeProximity ==
  /\ pc = "call"
  /\ result' = groupByTimeProximity(arg)
  /\ pc' = "grouped"
  /\ UNCHANGED <<file, data, sorted, i, currentThread, finalPosts, threadsFound,
                 timeGroups, inflight, reply, runs, results, arg, arg2>>

\* detectThreads(arg) is called.
CallDetectThreads ==
  /\ pc = "call"
  /\ result' = detectThreads(arg)
  /\ pc' = "detected"
  /\ UNCHANGED <<file, data, sorted, i, currentThread, finalPosts, threadsFound,
                 timeGroups, inflight, reply, runs, results, arg, arg2>>

NextGroup == CallGroupByTimeProximity \/ CallDetectThreads

SpecGroup == InitGroup /\ [][NextGroup]_vars

\* Two posts (by id) lie in the same cluster.
SameCluster(groups, a, b) ==
  \E g \in 1..Len(groups) :
    \E j, k \in 1..Len(groups[g]) : groups[g][j].id = a /\ groups[g][k].id = b

\* C8: after sorting ascending, two consecutive entries are in the same
\* cluster exactly when the gap between them is at most the 10-minute gap
\* threshold (a gap equal to the threshold does not split).
C8_ChainedClustering ==
  pc = "grouped" =>
    LET s == sortAscending(arg) IN
    \A k \in 1..(Len(s) - 1) :
      SameCluster(result, s[k].id, s[k + 1].id)
        <=> (s[k + 1].timestamp - s[k].timestamp <= 10 * Minute)

\* A cluster of three whose consecutive gaps equal the threshold and whose
\* span exceeds it, next to a state where a gap over the threshold split.
C8_Witness ==
  /\ pc = "grouped"
  /\ \E g \in 1..Len(result) :
       /\ Len(result[g]) = 3
       /\ result[g][2].timestamp - result[g][1].timestamp = 10 * Minute
       /\ result[g][3].timestamp - result[g][1].timestamp > 10 * Minute

\* The places (cluster, position) at which post p occurs in the result.
Places(groups, p) ==
  {<<g, k>> \in (1..Len(groups)) \X (1..MaxPosts + 1) :
     k <= Len(groups[g]) /\ groups[g][k] = p}

RECURSIVE total(_)
total(groups) == IF groups = <<>> THEN 0 ELSE Len(Head(groups)) + total(Tail(groups))

\* C9: the grouper's result is a partition of its input: every cluster is
\* non-empty and ascending by timestamp, every input entry is in exactly one
\* cluster, nothing else is, and the clusters are in ascending time order.
C9_Partition ==
  pc \in {"grouped", "detected"} =>
    /\ \A g \in 1..Len(result) :
         /\ Len(result[g]) >= 1
         /\ \A k \in 1..(Len(result[g]) - 1) :
              result[g][k].timestamp <= result[g][k + 1].timestamp
    /\ \A p \in 1..Len(arg) : Cardinality(Places(result, arg[p])) = 1
    /\ total(result) = Len(arg)
    /\ \A g \in 1..(Len(result) - 1) :
         result[g][Len(result[g])].timestamp <= result[g + 1][1].timestamp

\* An input that is not in ascending order is split into several clusters,
\* one of them with more than one member.
C9_Witness ==
  /\ pc = "grouped"
  /\ Len(result) >= 2
  /\ \E g \in 1..Len(result) : Len(result[g]) >= 2
  /\ \E k \in 1..(Len(arg) - 1) : arg[k].timestamp > arg[k + 1].timestamp

(***************************************************************************)
(* merge-threads-opus (the partition pipeline): analyzeThreadGroup and     *)
(* main().  The model's answer is not under the program's control: it is   *)
(* any of Replies(n).                                                      *)
(***************************************************************************)
\* The largest number of indices in an answer the model gives.
MaxAnswerIndices == 3

NonEmptyIndexSeqs(n, k) == UNION {[1..m -> 0..n] : m \in 1..k}

RECURSIVE IndexArrays(_, _)
\* The arrays of non-empty arrays of indices 0..n holding at most k indices
\* altogether; n is the first index outside a group of n posts.
IndexArrays(n, k) ==
  {<<>>} \cup
  UNION {{<<g>> \o rest : rest \in IndexArrays(n, k - Len(g))} :
           g \in NonEmptyIndexSeqs(n, k)}

JsonArrays == [n \in 2..(MaxPosts + 1) |-> IndexArrays(n, MaxAnswerIndices)]

\* What client.messages.create can come back with for a group of n posts:
\*   "throw"    the call rejects (network error, timeout, API error)
\*   "text"     a text without a JSON array, or one JSON.parse rejects
\*   "numbers"  a JSON array whose elements are not arrays, such as [0, 1]
\*   "json"     a JSON array of arrays of indices
Replies(n) ==
  {[kind |-> "throw"], [kind |-> "text"], [kind |-> "numbers"]}
    \cup {[kind |-> "json", value |-> v] : v \in JsonArrays[n]}

\* Lines 708-721: the value analyzeThreadGroup returns for a reply that did
\* not reject.
analyzeThreadGroup(posts, r) ==
  IF r.kind = "text" THEN [k \in 1..Len(posts) |-> <<k - 1>>]
  ELSE r.value

\* group[idx]
at(group, idx) ==
  IF idx \in 0..(Len(group) - 1) THEN group[idx + 1] ELSE Undefined

\* indices.map((idx) => group[idx])
threadPostsOf(group, indices) == [k \in 1..Len(indices) |-> at(group, indices[k])]

\* mergePosts throws a TypeError when an element of its argument is
\* undefined (sorted[0].id, or p.content in the map).
MergeCrashes(posts) == \E k \in 1..Len(posts) : ~IsPost(posts[k])

RECURSIVE pushed(_, _)
\* Lines 771-780: what the loop over threadGroups pushes to finalPosts.
pushed(group, threadGroups) ==
  IF threadGroups = <<>> THEN <<>>
  ELSE LET indices == Head(threadGroups)
           threadPosts == threadPostsOf(group, indices)
       IN (IF Len(indices) > 1 THEN <<mergePosts(threadPosts)>> ELSE <<threadPosts[1]>>)
            \o pushed(group, Tail(threadGroups))

RECURSIVE merging(_, _)
\* The thread groups the loop logs as "Merging indices".
merging(group, threadGroups) ==
  IF threadGroups = <<>> THEN <<>>
  ELSE LET indices == Head(threadGroups)
       IN (IF Len(indices) > 1 THEN <<threadPostsOf(group, indices)>> ELSE <<>>)
            \o merging(group, Tail(threadGroups))

OpusContents == { <<"Noted ", "it.">>, <<"And ", "it.">> }

OpusTimes == {0, 10 * Minute, 20 * Minute + 1}

OpusFlags == {<<"update", FALSE>>, <<"thought", TRUE>>}

InitOpus ==
  /\ file \in Collections(OpusContents, OpusTimes, OpusFlags)
  /\ pc = "start"
  /\ Idle

\* Lines 738-752: read posts.json and group by time proximity.
OpusLoad ==
  /\ pc = "start"
  /\ data' = file
  /\ timeGroups' = groupByTimeProximity(file)
  /\ finalPosts' = <<>>
  /\ threadsFound' = <<>>
  /\ i' = 1
  /\ pc' = "loop"
  /\ UNCHANGED <<file, sorted, currentThread, inflight, reply, runs, results, arg, arg2, result>>

\* Lines 757-760: a group of one post passes through.
OpusSingle ==
  /\ pc = "loop"
  /\ i <= Len(timeGroups)
  /\ Len(timeGroups[i]) = 1
  /\ finalPosts' = Append(finalPosts, timeGroups[i][1])
  /\ i' = i + 1
  /\ UNCHANGED <<file, pc, data, sorted, currentThread, threadsFound, timeGroups,
                 inflight, reply, runs, results, arg, arg2, result>>

\* Lines 762-768 and 671: the request for the judgment of group i is sent
\* and main awaits it.
OpusRequest ==
  /\ pc = "loop"
  /\ i <= Len(timeGroups)
  /\ Len(timeGroups[i]) # 1
  /\ inflight' = inflight \cup {i}
  /\ pc' = "await"
  /\ UNCHANGED <<file, data, sorted, i, currentThread, finalPosts, threadsFound,
                 timeGroups, reply, runs, results, arg, arg2, result>>

\* The model service settles the request.
OracleReplies ==
  /\ pc = "await"
  /\ inflight # {}
  /\ \E r \in Replies(Len(timeGroups[i])) : reply' = r
  /\ inflight' = inflight \ {i}
  /\ pc' = "resume"
  /\ UNCHANGED <<file, data, sorted, i, currentThread, finalPosts, threadsFound,
                 timeGroups, runs, results, arg, arg2, result>>

\* The run ends in main().catch(console.error) without writing posts.json.
Crashes(group, r) ==
  \/ r.kind \in {"throw", "numbers"}
  \/ LET threadGroups == analyzeThreadGroup(group, r) IN
     \E g \in 1..Len(threadGroups) :
       /\ Len(threadGroups[g]) > 1
       /\ MergeCrashes(threadPostsOf(group, threadGroups[g]))

\* Mutant: posts.json is written after every group that was applied.
OpusResume_writeThrough ==
  /\ pc = "resume"
  /\ LET group == timeGroups[i] IN
       IF Crashes(group, reply)
       THEN /\ pc' = "crashed"
            /\ UNCHANGED <<file, i, finalPosts, threadsFound, reply>>
       ELSE LET threadGroups == analyzeThreadGroup(group, reply) IN
            /\ finalPosts' = finalPosts \o pushed(group, threadGroups)
            /\ file' = finalPosts'
            /\ threadsFound' = threadsFound \o merging(group, threadGroups)
            /\ i' = i + 1
            /\ reply' = NoReply
            /\ pc' = "loop"
  /\ UNCHANGED <<data, sorted, currentThread, timeGroups, inflight, runs,
                 results, arg, arg2, result>>

\* Lines 708-721 and 768-783: main resumes with the reply, applies it to
\* group i and moves to the next group.
OpusResume ==
  /\ pc = "resume"
  /\ LET group == timeGroups[i] IN
       IF Crashes(group, reply)
       THEN /\ pc' = "crashed"
            /\ UNCHANGED <<i, finalPosts, threadsFound, reply>>
       ELSE LET threadGroups == analyzeThreadGroup(group, reply) IN
            /\ finalPosts' = finalPosts \o pushed(group, threadGroups)
            /\ threadsFound' = threadsFound \o merging(group, threadGroups)
            /\ i' = i + 1
            /\ reply' = NoReply
            /\ pc' = "loop"
  /\ UNCHANGED <<file, data, sorted, currentThread, timeGroups, inflight, runs,
                 results, arg, arg2, result>>

\* Lines 786-795: the descending sort and the write.
OpusSave ==
  /\ pc = "loop"
  /\ i > Len(timeGroups)
  /\ finalPosts' = sortDescending(finalPosts)
  /\ file' = finalPosts'
  /\ runs' = runs + 1
  /\ pc' = "done"
  /\ UNCHANGED <<data, sorted, i, currentThread, threadsFound, timeGroups, inflight,
                 reply, results, arg, arg2, result>>

NextOpus ==
  OpusLoad \/ OpusSingle \/ OpusRequest \/ OracleReplies \/ OpusResume \/ OpusSave

SpecOpus == InitOpus /\ [][NextOpus]_vars

(***************************************************************************)
(* Claims about the partition pipeline, checked under SpecOpus.            *)
(***************************************************************************)
RECURSIVE flatten(_)
flatten(arrays) == IF arrays = <<>> THEN <<>> ELSE Head(arrays) \o flatten(Tail(arrays))

Occurrences(seq, x) == Cardinality({k \in 1..Len(seq) : seq[k] = x})

\* The answer is a partition of the indices 0..n-1: none omitted, none
\* repeated, none outside.
IsPartition(value, n) ==
  LET flat == flatten(value) IN
  /\ \A x \in 0..(n - 1) : Occurrences(flat, x) = 1
  /\ \A k \in 1..Len(flat) : flat[k] \in 0..(n - 1)

\* The reply is unparseable or its partition is corrupt.
Corrupt(r, n) ==
  \/ r.kind = "text"
  \/ r.kind = "json" /\ ~IsPartition(r.value, n)

\* C2: whenever the oracle's answer for a cluster of n entries omits an
\* index, repeats one, holds one outside 0..n-1 or is not parseable, the
\* pipeline emits exactly the n members of the cluster as unmerged entries
\* and goes on to the next cluster.
C2_OracleFallback ==
  [][(pc = "resume" /\ Corrupt(reply, Len(timeGroups[i])))
       => (pc' = "loop" /\ finalPosts' = finalPosts \o timeGroups[i])]_vars

\* C3: a failed oracle call is never fatal: the cluster whose call failed is
\* kept as unmerged entries and the run goes on to the next cluster.
C3_FailedCallNeverFatal ==
  [][(pc = "resume" /\ reply.kind = "throw")
       => (pc' = "loop" /\ finalPosts' = finalPosts \o timeGroups[i])]_vars

\* C25: single read, single write: posts.json is read only at the start of
\* the run, before any cluster is processed; it is written at most once, and
\* only after the last cluster has been processed; a run that aborts leaves
\* posts.json as it was read.
C25_SingleReadSingleWrite ==
  [][/\ data' # data => (pc = "start" /\ data' = file /\ finalPosts' = <<>>)
     /\ (file' # file \/ runs' # runs) =>
          (pc = "loop" /\ i > Len(timeGroups) /\ pc' = "done" /\ runs = 0)
     /\ pc' = "crashed" => file' = data']_vars

\* A run has aborted after it had processed an earlier cluster.
C25_Witness ==
  /\ pc = "crashed"
  /\ i >= 2
  /\ finalPosts # <<>>
  /\ file = data

RECURSIVE absorbed(_)
\* The number of entries that merging the threads removes: the sum over the
\* threads of (size - 1).
absorbed(threads) ==
  IF threads = <<>> THEN 0 ELSE (Len(Head(threads)) - 1) + absorbed(Tail(threads))

\* C26: conservation of entries: when a run has written its output, every
\* entry it read is either an output entry itself or a member of exactly one
\* merged group, never both and never twice; the output holds entries only,
\* with unique ids, and its size is the input size minus the sum over the
\* merged groups of (size - 1).
C26_Conservation ==
  pc = "done" =>
    /\ \A k \in 1..Len(file) : IsPost(file[k])
    /\ \A k \in 1..Len(data) :
         Occurrences(file, data[k])
           + Cardinality({t \in 1..Len(threadsFound) :
                            data[k] \in Members(threadsFound[t])}) = 1
    /\ \A t \in Threads : \A a, b \in 1..Len(t) : a # b => t[a] # t[b]
    /\ \A a, b \in 1..Len(file) : a # b => file[a].id # file[b].id
    /\ Len(file) = Len(data) - absorbed(threadsFound)



(***************************************************************************)
(* categorize (the LLM-backed classifier): categorizePostBatch and main(). *)
(***************************************************************************)
BATCH_SIZE == 50

Min(a, b) == IF a < b THEN a ELSE b

\* One element of the JSON array the model answers with.  category "" is a
\* missing (or otherwise falsy) category; "idea" is any other string.
BatchElements ==
  [category : {"update", "thought", "idea", ""}, curated : BOOLEAN]

\* What client.messages.create can come back with for a batch of n posts:
\* a rejection, a text without a parseable JSON array, or a JSON array of at
\* most n elements.
BatchReplies(n) ==
  {[kind |-> "throw"], [kind |-> "text"]}
    \cup {[kind |-> "json", value |-> v] : v \in SeqsUpTo(BatchElements, n)}

\* results[i]?.category || 'update'
categoryOr(value, k) ==
  IF k \in 1..Len(value) /\ value[k].category # "" THEN value[k].category ELSE "update"

\* results[i]?.curated || false
curatedOr(value, k) ==
  IF k \in 1..Len(value) THEN value[k].curated ELSE FALSE

\* Lines 69-89: the value categorizePostBatch returns for a reply that did
\* not reject.
categorizePostBatch(posts, r) ==
  IF r.kind = "text"
  THEN [k \in 1..Len(posts) |-> [id |-> posts[k].id, category |-> "update", curated |-> FALSE]]
  ELSE [k \in 1..Len(posts) |->
          [id |-> posts[k].id,
           category |-> categoryOr(r.value, k),
           curated  |-> curatedOr(r.value, k)]]

\* batchResults.forEach(r => results.set(r.id, ...)); a later entry for an
\* id replaces an earlier one.
setAll(map, batchResults) ==
  [id \in DOMAIN map \cup {batchResults[k].id : k \in 1..Len(batchResults)} |->
     IF \E k \in 1..Len(batchResults) : batchResults[k].id = id
     THEN LET k == CHOOSE m \in 1..Len(batchResults) :
                     /\ batchResults[m].id = id
                     /\ \A q \in (m + 1)..Len(batchResults) : batchResults[q].id # id
          IN [category |-> batchResults[k].category, curated |-> batchResults[k].curated]
     ELSE map[id]]

\* Lines 114-118: a post with the category and curated flag of results.
categorized(p, map) ==
  [id        |-> p.id,
   content   |-> p.content,
   timestamp |-> p.timestamp,
   category  |-> IF p.id \in DOMAIN map /\ map[p.id].category # ""
                 THEN map[p.id].category ELSE "update",
   curated   |-> IF p.id \in DOMAIN map THEN map[p.id].curated ELSE FALSE]

CategorizeContents == { <<"Noted ", "it.">> }

CategorizeTimes == {0}

CategorizeFlags == {<<"none", FALSE>>, <<"update", FALSE>>, <<"thought", TRUE>>}

InitCategorize ==
  /\ file \in Collections(CategorizeContents, CategorizeTimes, CategorizeFlags)
  /\ pc = "start"
  /\ Idle

\* Lines 92-99: read posts.json.
CategorizeLoad ==
  /\ pc = "start"
  /\ data' = file
  /\ results' = <<>>
  /\ i' = 0
  /\ pc' = "loop"
  /\ UNCHANGED <<file, sorted, currentThread, finalPosts, threadsFound, timeGroups,
                 inflight, reply, runs, arg, arg2, result>>

\* Lines 102-106 and 58: the request for the batch starting at i is sent and
\* main awaits it.
CategorizeRequest ==
  /\ pc = "loop"
  /\ i < Len(data)
  /\ inflight' = inflight \cup {i}
  /\ pc' = "await"
  /\ UNCHANGED <<file, data, sorted, i, currentThread, finalPosts, threadsFound,
                 timeGroups, reply, runs, results, arg, arg2, result>>

\* The model service settles the request.
ClassifierReplies ==
  /\ pc = "await"
  /\ inflight # {}
  /\ \E r \in BatchReplies(Min(BATCH_SIZE, Len(data) - i)) : reply' = r
  /\ inflight' = inflight \ {i}
  /\ pc' = "resume"
  /\ UNCHANGED <<file, data, sorted, i, currentThread, finalPosts, threadsFound,
                 timeGroups, runs, results, arg, arg2, result>>

\* Lines 69-89 and 106-110: main resumes with the reply, records the batch's
\* results and moves to the next batch; a rejection ends the run in
\* main().catch(console.error).
CategorizeResume ==
  /\ pc = "resume"
  /\ IF reply.kind = "throw"
     THEN /\ pc' = "crashed"
          /\ UNCHANGED <<i, results, reply>>
     ELSE LET batch == SubSeq(data, i + 1, Min(i + BATCH_SIZE, Len(data))) IN
          /\ results' = setAll(results, categorizePostBatch(batch, reply))
          /\ i' = i + BATCH_SIZE
          /\ reply' = NoReply
          /\ pc' = "loop"
  /\ UNCHANGED <<file, data, sorted, currentThread, finalPosts, threadsFound,
                 timeGroups, inflight, runs, arg, arg2, result>>

\* Lines 113-132: every post gets its category and curated flag, and
\* posts.json is written.
CategorizeSave ==
  /\ pc = "loop"
  /\ i >= Len(data)
  /\ file' = [k \in 1..Len(data) |-> categorized(data[k], results)]
  /\ runs' = runs + 1
  /\ pc' = "done"
  /\ UNCHANGED <<data, sorted, i, currentThread, finalPosts, threadsFound, timeGroups,
                 inflight, reply, results, arg, arg2, result>>

NextCategorize ==
  CategorizeLoad \/ CategorizeRequest \/ ClassifierReplies \/ CategorizeResume
    \/ CategorizeSave

SpecCategorize == InitCategorize /\ [][NextCategorize]_vars

\* C7: category exclusivity: no entry produced by classification has
\* curated (notable) true unless its category is "thought".
C7_UpdateNeverCurated ==
  pc = "done" => \A k \in 1..Len(file) : file[k].curated => file[k].category = "thought"

\* C13: the classification step leaves classified entries alone: an entry
\* that carried a category before the run has the same category and the same
\* curated (notable) flag in the file the run writes.
C13_ClassifiedPassThrough ==
  pc = "done" =>
    \A k \in 1..Len(data) :
      data[k].category # "none" =>
        /\ file[k].category = data[k].category
        /\ file[k].curated = data[k].curated

\* C14: after classification every entry's category is exactly "update" or
\* "thought", whatever the model answered.
C14_CategoryIsEnum ==
  pc = "done" => \A k \in 1..Len(file) : file[k].category \in {"update", "thought"}

(***************************************************************************)
(* mergePosts as a function of the group it is handed, in any order.       *)
(***************************************************************************)
MergeContents == { <<"Noted ", "it.">>, <<"And ", "it.">> }

MergeTimes == {0, 2 * Minute}

MergeFlags ==
  {<<"none", FALSE>>, <<"update", FALSE>>, <<"thought", FALSE>>, <<"thought", TRUE>>}

\* Mutant: mergePostGroup takes the first timestamp, as mergeThread does.
mergePostGroup_earliest(posts) ==
  LET srt == sortAscending(posts)
  IN [id        |-> srt[1].id,
      content   |-> join([k \in 1..Len(srt) |-> srt[k].content]),
      timestamp |-> srt[1].timestamp,
      category  |-> IF \E k \in 1..Len(srt) : srt[k].category = "thought"
                    THEN "thought" ELSE "update",
      curated   |-> \E k \in 1..Len(srt) : srt[k].curated = TRUE]

\* mergePostGroup of merge-threads: the most recent timestamp.
mergePostGroup(posts) ==
  LET srt == sortAscending(posts)
  IN [id        |-> srt[1].id,
      content   |-> join([k \in 1..Len(srt) |-> srt[k].content]),
      timestamp |-> srt[Len(srt)].timestamp,
      category  |-> IF \E k \in 1..Len(srt) : srt[k].category = "thought"
                    THEN "thought" ELSE "update",
      curated   |-> \E k \in 1..Len(srt) : srt[k].curated = TRUE]

\* mergeThread of merge-threads-local: the first post's timestamp.
mergeThread(posts) ==
  LET srt == sortAscending(posts)
  IN [id        |-> srt[1].id,
      content   |-> join([k \in 1..Len(srt) |-> srt[k].content]),
      timestamp |-> srt[1].timestamp,
      category  |-> IF \E k \in 1..Len(srt) : srt[k].category = "thought"
                    THEN "thought" ELSE "update",
      curated   |-> \E k \in 1..Len(srt) : srt[k].curated = TRUE]

\* The orders in which the members of group can be handed over.
Orders(group) ==
  {[k \in 1..Len(group) |-> group[f[k]]] :
     f \in {g \in [1..Len(group) -> 1..Len(group)] :
              \A a, b \in 1..Len(group) : a # b => g[a] # g[b]}}

InitMerge ==
  /\ arg \in {c \in Collections(MergeContents, MergeTimes, MergeFlags) : Len(c) >= 2}
  /\ arg2 \in Orders(arg)
  /\ pc = "call"
  /\ file = <<>> /\ data = <<>> /\ sorted = <<>> /\ i = 0 /\ currentThread = <<>>
  /\ finalPosts = <<>> /\ threadsFound = <<>> /\ timeGroups = <<>>
  /\ inflight = {} /\ reply = NoReply /\ runs = 0 /\ results = <<>> /\ result = <<>>

\* mergePosts is called with the group, and with the same group in another
\* order.
CallMergePosts ==
  /\ pc = "call"
  /\ result' = <<mergePosts(arg), mergePosts(arg2)>>
  /\ pc' = "merged"
  /\ UNCHANGED <<file, data, sorted, i, currentThread, finalPosts, threadsFound,
                 timeGroups, inflight, reply, runs, results, arg, arg2>>

\* mergePostGroup (merge-threads) is called with the group, and with the
\* same group in another order.
CallMergePostGroup ==
  /\ pc = "call"
  /\ result' = <<mergePostGroup(arg), mergePostGroup(arg2)>>
  /\ pc' = "groupMerged"
  /\ UNCHANGED <<file, data, sorted, i, currentThread, finalPosts, threadsFound,
                 timeGroups, inflight, reply, runs, results, arg, arg2>>

\* mergeThread (merge-threads-local) is called with the group, and with the
\* same group in another order.
CallMergeThread ==
  /\ pc = "call"
  /\ result' = <<mergeThread(arg), mergeThread(arg2)>>
  /\ pc' = "threadMerged"
  /\ UNCHANGED <<file, data, sorted, i, currentThread, finalPosts, threadsFound,
                 timeGroups, inflight, reply, runs, results, arg, arg2>>

NextMerge == CallMergePosts \/ CallMergePostGroup \/ CallMergeThread

SpecMerge == InitMerge /\ [][NextMerge]_vars

\* C10: merge content ordering is independent of arrival order: for every
\* group and every permutation of it, mergePosts returns the same content,
\* also when two members have equal timestamps.
C10_ContentOrderIndependent ==
  pc = "merged" => result[1].content = result[2].content

C20_FlagsAreDisjunction ==
  pc \in {"merged", "threadMerged"} =>
    \A r \in {result[1], result[2]} :
      /\ r.category = IF \E k \in 1..Len(arg) : arg[k].category = "thought"
                      THEN "thought" ELSE "update"
      /\ r.curated = (\E k \in 1..Len(arg) : arg[k].curated)

\* mergeThread was handed a group whose earliest member has no category and
\* is not curated and whose latest member is a curated thought; and a group
\* without any thought.
C20_Witness ==
  /\ pc = "threadMerged"
  /\ arg[1].category = "none"
  /\ arg[1].timestamp < arg[2].timestamp
  /\ arg[2].category = "thought"
  /\ arg[2].curated
  /\ result[1].category = "thought"


(***************************************************************************)
(* merge-threads (the binary-judgment pipeline) and merge-threads-local    *)
(* (the local pipeline): their merge functions and main().                 *)
(***************************************************************************)
\* The largest posts.json the two scripts are run on.
MaxThreadPosts == 4

\* What client.messages.create can come back with in shouldMergeGroup: a
\* rejection, or a text that includes "yes" or does not.
Judgments == {[kind |-> "throw"], [kind |-> "text", yes |-> TRUE], [kind |-> "text", yes |-> FALSE]}

\* Lines 218-219: text.includes('yes')
shouldMergeGroup(r) == r.yes

ThreadContents == { <<"Noted ", "it.">> }

ThreadTimes == {0, Minute, 30 * Minute, 31 * Minute}

ThreadFlags == {<<"update", FALSE>>, <<"thought", TRUE>>}

Scripts == {"merge-threads", "merge-threads-local"}

\* posts.json holds at most MaxThreadPosts posts; arg is the script that is run.
InitThreads ==
  /\ file \in {[k \in 1..Len(c) |-> [id        |-> k,
                                     content   |-> c[k][1],
                                     timestamp |-> c[k][2],
                                     category  |-> c[k][3][1],
                                     curated   |-> c[k][3][2]]] :
                 c \in SeqsUpTo(ThreadContents \X ThreadTimes \X ThreadFlags, MaxThreadPosts)}
  /\ arg \in Scripts
  /\ pc = "start"
  /\ data = <<>> /\ sorted = <<>> /\ i = 0 /\ currentThread = <<>>
  /\ finalPosts = <<>> /\ threadsFound = <<>> /\ timeGroups = <<>>
  /\ inflight = {} /\ reply = NoReply /\ runs = 0 /\ results = <<>> /\ arg2 = <<>> /\ result = <<>>

\* threads.map((thread) => thread.length > 1 ? mergeThread(thread) : thread[0])
mergedThreads(threads) ==
  [k \in 1..Len(threads) |->
     IF Len(threads[k]) > 1 THEN mergeThread(threads[k]) ELSE threads[k][1]]

\* merge-threads-local main (lines 107-145), which never suspends.
LocalMain ==
  /\ pc = "start"
  /\ arg = "merge-threads-local"
  /\ data' = file
  /\ timeGroups' = detectThreads(file)
  /\ threadsFound' = SelectSeq(timeGroups', LAMBDA t : Len(t) > 1)
  /\ finalPosts' = sortDescending(mergedThreads(timeGroups'))
  /\ file' = finalPosts'
  /\ runs' = runs + 1
  /\ pc' = "done"
  /\ UNCHANGED <<sorted, i, currentThread, inflight, reply, results, arg, arg2, result>>

\* merge-threads main, lines 252-267: read posts.json, group by time proximity.
JudgeLoad ==
  /\ pc = "start"
  /\ arg = "merge-threads"
  /\ data' = file
  /\ timeGroups' = groupByTimeProximity(file)
  /\ finalPosts' = <<>>
  /\ threadsFound' = <<>>
  /\ i' = 1
  /\ pc' = "loop"
  /\ UNCHANGED <<file, sorted, currentThread, inflight, reply, runs, results, arg, arg2, result>>

\* Lines 272-276: a group of one post passes through.
JudgeSingle ==
  /\ pc = "loop"
  /\ i <= Len(timeGroups)
  /\ Len(timeGroups[i]) = 1
  /\ finalPosts' = Append(finalPosts, timeGroups[i][1])
  /\ i' = i + 1
  /\ UNCHANGED <<file, pc, data, sorted, currentThread, threadsFound, timeGroups,
                 inflight, reply, runs, results, arg, arg2, result>>

\* Mutant: the judgments of all remaining groups are requested at once.
JudgeRequest_all ==
  /\ pc = "loop"
  /\ i <= Len(timeGroups)
  /\ Len(timeGroups[i]) # 1
  /\ inflight' = {g \in i..Len(timeGroups) : Len(timeGroups[g]) # 1}
  /\ pc' = "await"
  /\ UNCHANGED <<file, data, sorted, i, currentThread, finalPosts, threadsFound,
                 timeGroups, reply, runs, results, arg, arg2, result>>

\* Lines 278-281 and 205: the judgment of group i is requested and main
\* awaits it.
JudgeRequest ==
  /\ pc = "loop"
  /\ i <= Len(timeGroups)
  /\ Len(timeGroups[i]) # 1
  /\ inflight' = inflight \cup {i}
  /\ pc' = "await"
  /\ UNCHANGED <<file, data, sorted, i, currentThread, finalPosts, threadsFound,
                 timeGroups, reply, runs, results, arg, arg2, result>>

\* The model service settles the request.
JudgeReplies ==
  /\ pc = "await"
  /\ inflight # {}
  /\ \E r \in Judgments : reply' = r
  /\ inflight' = inflight \ {i}
  /\ pc' = "resume"
  /\ UNCHANGED <<file, data, sorted, i, currentThread, finalPosts, threadsFound,
                 timeGroups, runs, results, arg, arg2, result>>

\* Lines 218-219 and 283-298: main resumes with the judgment, merges group i
\* or keeps its posts, and moves to the next group; a rejection ends the run
\* in main().catch(console.error).
JudgeResume ==
  /\ pc = "resume"
  /\ LET group == timeGroups[i] IN
       IF reply.kind = "throw"
       THEN /\ pc' = "crashed"
            /\ UNCHANGED <<i, finalPosts, threadsFound, reply>>
       ELSE /\ IF shouldMergeGroup(reply)
               THEN /\ finalPosts' = Append(finalPosts, mergePostGroup(group))
                    /\ threadsFound' = Append(threadsFound, group)
               ELSE /\ finalPosts' = finalPosts \o group
                    /\ UNCHANGED threadsFound
            /\ i' = i + 1
            /\ reply' = NoReply
            /\ pc' = "loop"
  /\ UNCHANGED <<file, data, sorted, currentThread, timeGroups, inflight, runs,
                 results, arg, arg2, result>>

\* Lines 301-311: the descending sort and the write.
JudgeSave ==
  /\ pc = "loop"
  /\ i > Len(timeGroups)
  /\ finalPosts' = sortDescending(finalPosts)
  /\ file' = finalPosts'
  /\ runs' = runs + 1
  /\ pc' = "done"
  /\ UNCHANGED <<data, sorted, i, currentThread, threadsFound, timeGroups, inflight,
                 reply, results, arg, arg2, result>>

NextThreads ==
  LocalMain \/ JudgeLoad \/ JudgeSingle \/ JudgeRequest \/ JudgeReplies \/ JudgeResume
    \/ JudgeSave

SpecThreads == InitThreads /\ [][NextThreads]_vars

\* The entry of the written file that stands for the merged thread t.
MergedEntry(t) == CHOOSE p \in Members(file) : p.id = sortAscending(t)[1].id

earliest(t) == sortAscending(t)[1].timestamp

latest(t) == sortAscending(t)[Len(t)].timestamp

\* C12: the merge timestamp policy is uniform within a run: every merged
\* entry of a run of the local pipeline carries its earliest member's
\* timestamp, every merged entry of a run of the binary-judgment pipeline
\* its latest member's, and no run mixes the two rules.
C12_UniformTimestampPolicy ==
  pc = "done" =>
    /\ \A t \in Threads : \E p \in Members(file) : p.id = sortAscending(t)[1].id
    /\ arg = "merge-threads-local" =>
         \A t \in Threads : MergedEntry(t).timestamp = earliest(t)
    /\ arg = "merge-threads" =>
         \A t \in Threads : MergedEntry(t).timestamp = latest(t)

\* A run of the binary-judgment pipeline has ended with two merged entries,
\* each of members with different timestamps.
C12_Witness ==
  /\ pc = "done"
  /\ arg = "merge-threads"
  /\ Len(threadsFound) = 2
  /\ \A t \in Threads : earliest(t) < latest(t)

\* The judgment of group g has been applied: its merged entry, or each of
\* its posts, is in the output list.
Applied(g) ==
  \/ mergePostGroup(timeGroups[g]) \in Members(finalPosts)
  \/ \A p \in Members(timeGroups[g]) : p \in Members(finalPosts)

\* C24: oracle judgments are strictly sequential: a judgment is requested
\* only when none is in flight and none is waiting to be applied, it is the
\* judgment of the current cluster, every earlier cluster starts no later and
\* has had its judgment applied, so at no point are two judgments in flight.
C24_SequentialJudgments ==
  [][(inflight' # inflight /\ inflight' # {}) =>
       /\ inflight = {}
       /\ reply = NoReply
       /\ inflight' = {i}
       /\ \A g \in 1..(i - 1) :
            /\ timeGroups[g][1].timestamp <= timeGroups[i][1].timestamp
            /\ Applied(g)]_vars

\* The judgment of a second multi-member cluster is in flight after the
\* first one was merged.
C24_Witness ==
  /\ pc = "await"
  /\ inflight = {i}
  /\ i >= 2
  /\ Len(threadsFound) = 1
  /\ Len(timeGroups[1]) > 1


(***************************************************************************)
(* The pattern classifiers: categorizePost of categorize-local and         *)
(* categorizePost of rebuild-posts.  A pattern anchored with ^ tests the   *)
(* first lexeme of the text, an unanchored pattern every lexeme.           *)
(***************************************************************************)
Space == " "

RECURSIVE trimStart(_)
trimStart(content) ==
  IF content # <<>> /\ Head(content) = Space THEN trimStart(Tail(content)) ELSE content

RECURSIVE trimEnd(_)
trimEnd(content) ==
  IF content # <<>> /\ content[Len(content)] = Space
  THEN trimEnd(SubSeq(content, 1, Len(content) - 1))
  ELSE content

\* String.prototype.trim
trim(content) == trimEnd(trimStart(content))

\* pattern.test(text) for some pattern of the list: /^.../ patterns test the
\* opener, the others any place of the text.
some(text, openers, anywhere) ==
  \/ text # <<>> /\ Head(text) \in openers
  \/ \E k \in 1..Len(text) : text[k] \in anywhere

\* categorize-local: /^Completed /i ...; /management for (Jan|...)/i
UPDATE_PATTERNS(text) == some(text, {"Completed "}, {"management for Jan"})

\* categorize-local: /^I (am|was|think|...)/i, /^So I'm going to/i ...; /strategy/i
THOUGHT_PATTERNS(text) == some(text, {"I think ", "So I'm going to "}, {"strategy"})

\* categorize-local: /strategy/i, /lesson/i ...
CURATED_INDICATORS(text) == some(text, {}, {"strategy", "lesson"})

\* reflectiveWords.some(word => trimmed.toLowerCase().includes(word))
hasReflective(text) == some(text, {}, {"I think "})

\* Mutant: the long-content tier starts at 200 characters instead of above.
categorizePost_longFrom200(content) ==
  LET trimmed == trim(content) IN
  IF UPDATE_PATTERNS(trimmed)
  THEN [category |-> "update", curated |-> FALSE]
  ELSE IF THOUGHT_PATTERNS(trimmed)
  THEN [category |-> "thought",
        curated  |-> CURATED_INDICATORS(trimmed) \/ length(trimmed) > 200]
  ELSE IF length(trimmed) < 50
  THEN [category |-> "update", curated |-> FALSE]
  ELSE IF length(trimmed) >= 200
  THEN [category |-> "thought", curated |-> TRUE]
  ELSE IF hasReflective(trimmed)
  THEN [category |-> "thought", curated |-> FALSE]
  ELSE [category |-> "update", curated |-> FALSE]

\* categorizePost of categorize-local.
categorizePost(content) ==
  LET trimmed == trim(content) IN
  IF UPDATE_PATTERNS(trimmed)
  THEN [category |-> "update", curated |-> FALSE]
  ELSE IF THOUGHT_PATTERNS(trimmed)
  THEN [category |-> "thought",
        curated  |-> CURATED_INDICATORS(trimmed) \/ length(trimmed) > 200]
  ELSE IF length(trimmed) < 50
  THEN [category |-> "update", curated |-> FALSE]
  ELSE IF length(trimmed) > 200
  THEN [category |-> "thought", curated |-> TRUE]
  ELSE IF hasReflective(trimmed)
  THEN [category |-> "thought", curated |-> FALSE]
  ELSE [category |-> "update", curated |-> FALSE]

\* rebuild-posts: /^completed/i ...; /management for/i
REBUILD_UPDATE_PATTERNS(text) == some(text, {"Completed "}, {"management for Jan"})

\* rebuild-posts: /^i think/i ...; /decided to/i
REBUILD_THOUGHT_PATTERNS(text) == some(text, {"I think "}, {"decided to "})

\* rebuild-posts: /strategy/i ...
REBUILD_CURATED_INDICATORS(text) == some(text, {}, {"strategy"})

\* categorizePost of rebuild-posts.
rebuildCategorizePost(content) ==
  LET isUpdate == REBUILD_UPDATE_PATTERNS(content)
      isThought == REBUILD_THOUGHT_PATTERNS(content)
      isCurated == REBUILD_CURATED_INDICATORS(content)
      category == IF isThought /\ ~isUpdate THEN "thought"
                  ELSE IF isThought /\ isUpdate
                  THEN (IF length(content) > 150 THEN "thought" ELSE "update")
                  ELSE IF ~isThought /\ ~isUpdate
                  THEN (IF length(content) > 200 THEN "thought" ELSE "update")
                  ELSE "update"
  IN [category |-> category, curated |-> (category = "thought" /\ isCurated)]

\* The longest content, in lexemes, the classifiers are called with.
MaxLexemes == 3

ClassifyLexemes ==
  {Space, "Completed ", "I think ", "decided to ", "strategy", "management for Jan",
   "lesson", "it.", Prose50, Prose100, Prose200}

InitClassify ==
  /\ arg \in SeqsUpTo(ClassifyLexemes, MaxLexemes)
  /\ pc = "call"
  /\ file = <<>> /\ data = <<>> /\ sorted = <<>> /\ i = 0 /\ currentThread = <<>>
  /\ finalPosts = <<>> /\ threadsFound = <<>> /\ timeGroups = <<>>
  /\ inflight = {} /\ reply = NoReply /\ runs = 0 /\ results = <<>> /\ arg2 = <<>> /\ result = <<>>

\* categorizePost(arg) of categorize-local is called.
CallCategorizePost ==
  /\ pc = "call"
  /\ result' = categorizePost(arg)
  /\ pc' = "local"
  /\ UNCHANGED <<file, data, sorted, i, currentThread, finalPosts, threadsFound,
                 timeGroups, inflight, reply, runs, results, arg, arg2>>

\* categorizePost(arg) of rebuild-posts is called.
CallRebuildCategorizePost ==
  /\ pc = "call"
  /\ result' = rebuildCategorizePost(arg)
  /\ pc' = "rebuild"
  /\ UNCHANGED <<file, data, sorted, i, currentThread, finalPosts, threadsFound,
                 timeGroups, inflight, reply, runs, results, arg, arg2>>

NextClassify == CallCategorizePost \/ CallRebuildCategorizePost

SpecClassify == InitClassify /\ [][NextClassify]_vars

\* C15: classifier tie-break: a content that matches at least one update
\* rule is classified "update" and not notable, even when it also matches
\* thought rules, whatever its length.
C15_UpdateRulesFirst ==
  /\ (pc = "local" /\ UPDATE_PATTERNS(trim(arg)))
       => result = [category |-> "update", curated |-> FALSE]
  /\ (pc = "rebuild" /\ REBUILD_UPDATE_PATTERNS(arg))
       => result = [category |-> "update", curated |-> FALSE]

\* C22: every entry the classifier categorizes as "thought" is notable
\* whenever its trimmed content matches a notable-indicator pattern or is
\* longer than 200 characters, on every path that yields "thought".
C22_ThoughtNotability ==
  /\ (/\ pc = "local"
      /\ result.category = "thought"
      /\ (CURATED_INDICATORS(trim(arg)) \/ length(trim(arg)) > 200))
       => result.curated
  /\ (/\ pc = "rebuild"
      /\ result.category = "thought"
      /\ (REBUILD_CURATED_INDICATORS(trim(arg)) \/ length(trim(arg)) > 200))
       => result.curated

\* C23: when no update rule and no thought rule matches, categorizePost of
\* categorize-local returns "update" for a trimmed length under 50,
\* "thought" for one over 200, and from 50 to 200 inclusive "thought" if the
\* content holds a reflective word and "update" otherwise.
C23_FallbackTiers ==
  (/\ pc = "local"
   /\ ~UPDATE_PATTERNS(trim(arg))
   /\ ~THOUGHT_PATTERNS(trim(arg)))
  => LET n == length(trim(arg)) IN
     result.category = IF n < 50 THEN "update"
                       ELSE IF n > 200 THEN "thought"
                       ELSE IF hasReflective(trim(arg)) THEN "thought"
                       ELSE "update"

\* A content of exactly 200 characters after trimming that matches no rule
\* and holds no reflective word was classified.
C23_Witness ==
  /\ pc = "local"
  /\ ~UPDATE_PATTERNS(trim(arg))
  /\ ~THOUGHT_PATTERNS(trim(arg))
  /\ arg # trim(arg)
  /\ length(trim(arg)) = 200
  /\ result.category = "update"


(***************************************************************************)
(* The Rule Oracle pipeline end to end: categorize-local, then smart-merge.*)
(***************************************************************************)
\* The instant h:m of the day, in milliseconds.
At(h, m) == (h * 60 + m) * Minute

PipelineContents ==
  { <<"Completed ", "export.">>,
    <<"So I'm going to ", "rewrite the importer next.">>,
    <<"It'll take about two days.">> }

PipelineTimes == {At(10, 0), At(10, 1), At(10, 7)}

\* Posts as the authoring path creates them: no category, no curated flag.
RawFlags == {<<"none", FALSE>>}

\* arg keeps the posts.json the pipeline started from.
InitPipeline ==
  /\ file \in Collections(PipelineContents, PipelineTimes, RawFlags)
  /\ arg = file
  /\ pc = "raw"
  /\ data = <<>> /\ sorted = <<>> /\ i = 0 /\ currentThread = <<>>
  /\ finalPosts = <<>> /\ threadsFound = <<>> /\ timeGroups = <<>>
  /\ inflight = {} /\ reply = NoReply /\ runs = 0 /\ results = <<>> /\ arg2 = <<>> /\ result = <<>>

\* categorize-local main (lines 489-520): every post gets the category and
\* curated flag categorizePost returns for its content, and posts.json is
\* written.
LocalCategorizeMain ==
  /\ pc = "raw"
  /\ file' = [k \in 1..Len(file) |->
                [id        |-> file[k].id,
                 content   |-> file[k].content,
                 timestamp |-> file[k].timestamp,
                 category  |-> categorizePost(file[k].content).category,
                 curated   |-> categorizePost(file[k].content).curated]]
  /\ pc' = "start"
  /\ UNCHANGED <<data, sorted, i, currentThread, finalPosts, threadsFound, timeGroups,
                 inflight, reply, runs, results, arg, arg2, result>>

NextPipeline == LocalCategorizeMain \/ SmartLoad \/ SmartLoop \/ SmartSave

SpecPipeline == InitPipeline /\ [][NextPipeline]_vars

Example ==
  << [id |-> 1, content |-> <<"Completed ", "export.">>, timestamp |-> At(10, 0),
      category |-> "none", curated |-> FALSE],
     [id |-> 2, content |-> <<"So I'm going to ", "rewrite the importer next.">>,
      timestamp |-> At(10, 1), category |-> "none", curated |-> FALSE],
     [id |-> 3, content |-> <<"It'll take about two days.">>, timestamp |-> At(10, 7),
      category |-> "none", curated |-> FALSE] >>

\* C16: for the input 10:00 "Completed export.", 10:01 "So I'm going to
\* rewrite the importer next.", 10:07 "It'll take about two days.", classified
\* and then merged under the Rule Oracle with the 5-minute threshold, the
\* output is the three original entries, none merged, in the order 10:07,
\* 10:01, 10:00.
C16_EndToEndExample ==
  (pc = "done" /\ arg = Example) =>
    /\ threadsFound = <<>>
    /\ Len(file) = 3
    /\ \A k \in 1..3 :
         /\ file[k].id = Example[4 - k].id
         /\ file[k].content = Example[4 - k].content
         /\ file[k].timestamp = Example[4 - k].timestamp

\* The pipeline has run to its end on the example.
C16_Witness ==
  /\ pc = "done"
  /\ arg = Example
  /\ runs = 1
  /\ file # <<>>

(***************************************************************************)
(* smart-merge on a posts.json that holds malformed entries: posts whose   *)
(* content is empty, or blank, next to well-formed ones.                   *)
(***************************************************************************)
MalformedContents ==
  { <<>>,                      \* ""
    <<Space>>,                 \* " "
    <<"And ", "it.">>,
    <<"Noted ", Prose100>> }

MalformedTimes == {0, Minute, 6 * Minute}

MalformedFlags == {<<"update", FALSE>>, <<"thought", FALSE>>}

InitMalformed ==
  /\ file \in Collections(MalformedContents, MalformedTimes, MalformedFlags)
  /\ pc = "start"
  /\ Idle

NextMalformed == SmartLoad \/ SmartLoop \/ SmartSave

SpecMalformed == InitMalformed /\ [][NextMalformed]_vars

\* C18: malformed input is rejected per entry: an entry whose content is
\* empty after trimming is never merged into another entry, and the run
\* completes with the remaining entries.
C18_MalformedNeverMerged ==
  \A t \in Threads : \A p \in Members(t) : trim(p.content) # <<>>

(***************************************************************************)
(* shouldMerge as a function of the pair it is handed, in both orders.     *)
(***************************************************************************)
DecisionContents ==
  { <<"Completed ", "export.">>,   \* standalone update shape
    <<"And ", "it.">>,             \* continuation marker, short
    <<"And ", Prose100>>,          \* continuation marker, over 100 characters
    <<"Noted ", "it.">>,           \* neither, short
    <<"Noted ", Prose100>> }       \* neither, over 100 characters

DecisionTimes == {0, 5 * Minute, 5 * Minute + 1}

DecisionFlags == {<<"update", FALSE>>, <<"thought", FALSE>>}

\* The posts with the given id that shouldMerge is handed.
DecisionPosts(id) ==
  {[id |-> id, content |-> c, timestamp |-> t, category |-> f[1], curated |-> f[2]] :
     c \in DecisionContents, t \in DecisionTimes, f \in DecisionFlags}

InitDecision ==
  /\ arg \in DecisionPosts(1)
  /\ arg2 \in DecisionPosts(2)
  /\ pc = "call"
  /\ file = <<>> /\ data = <<>> /\ sorted = <<>> /\ i = 0 /\ currentThread = <<>>
  /\ finalPosts = <<>> /\ threadsFound = <<>> /\ timeGroups = <<>>
  /\ inflight = {} /\ reply = NoReply /\ runs = 0 /\ results = <<>> /\ result = <<>>

\* shouldMerge(arg, arg2) and shouldMerge(arg2, arg) are called.
CallShouldMerge ==
  /\ pc = "call"
  /\ result' = <<shouldMerge(arg, arg2), shouldMerge(arg2, arg)>>
  /\ pc' = "decided"
  /\ UNCHANGED <<file, data, sorted, i, currentThread, finalPosts, threadsFound,
                 timeGroups, inflight, reply, runs, results, arg, arg2>>

NextDecision == CallShouldMerge

SpecDecision == InitDecision /\ [][NextDecision]_vars

\* C21: for two entries both categorized "thought", neither of
\* standalone-update shape and at most 5 minutes apart, shouldMerge(post1,
\* post2) is true if and only if the temporally later entry (the second post
\* when neither is earlier) opens with a continuation marker or both contents
\* are longer than 100 characters.
C21_ThoughtMergeRule ==
  (/\ pc = "decided"
   /\ arg.category = "thought" /\ arg2.category = "thought"
   /\ ~isStandaloneUpdate(arg.content) /\ ~isStandaloneUpdate(arg2.content)
   /\ Abs(arg2.timestamp - arg.timestamp) <= 5 * Minute)
  => LET later == IF arg2.timestamp >= arg.timestamp THEN arg2 ELSE arg
     IN result[1] <=> \/ isContinuation(later.content)
                      \/ (length(arg.content) > 100 /\ length(arg2.content) > 100)

\* C27: the pairwise merge decision does not depend on argument order:
\* shouldMerge(a, b) = shouldMerge(b, a), also when a and b carry the same
\* timestamp.
C27_ShouldMergeSymmetric ==
  pc = "decided" => result[1] = result[2]

(***************************************************************************)
(* pending-posts: the GET and POST handlers on the "posts" key of the blob *)
(* store.  file is the value under the key, i the clock (Date.now()),      *)
(* data the state of each request's handler, result the posts whose POST   *)
(* was answered ok: true.                                                  *)
(***************************************************************************)
\* The number of requests the function receives.
MaxRequests == 3

\* The number of times the clock advances.
MaxTicks == 3

MAX_AGE_MS == 10 * 60 * 1000

\* The clock advances in steps of 5 minutes.
TickMs == 5 * Minute

Requests == 1..MaxRequests

\* A request that has not arrived.
NoRequest ==
  [method |-> "none", pc |-> "idle", status |-> 0, post |-> <<>>, posts |-> <<>>,
   fresh |-> <<>>, now |-> 0, seen |-> {}]

InitPending ==
  /\ file = <<>>
  /\ i = 0
  /\ data = [r \in Requests |-> NoRequest]
  /\ result = {}
  /\ pc = "serving"
  /\ sorted = <<>> /\ currentThread = <<>> /\ finalPosts = <<>> /\ threadsFound = <<>>
  /\ timeGroups = <<>> /\ inflight = {} /\ reply = NoReply /\ runs = 0 /\ results = <<>>
  /\ arg = <<>> /\ arg2 = <<>>

\* Date.now() moves on.
Tick ==
  /\ i < MaxTicks * TickMs
  /\ i' = i + TickMs
  /\ UNCHANGED <<file, pc, data, sorted, currentThread, finalPosts, threadsFound,
                 timeGroups, inflight, reply, runs, results, arg, arg2, result>>

PendingFrame ==
  UNCHANGED <<pc, sorted, i, currentThread, finalPosts, threadsFound, timeGroups,
              inflight, reply, runs, results, arg, arg2>>

\* Lines 22-26 and 72-76: a request arrives; OPTIONS is answered 204 and a
\* method other than GET and POST 405; a GET goes on to read the store.
\* seen keeps the posts acknowledged before the request arrived.
ArriveOther(r) ==
  /\ data[r].pc = "idle"
  /\ \E m \in {"OPTIONS", "PUT", "GET"} :
       data' = [data EXCEPT ![r] =
                  [@ EXCEPT !.method = m,
                            !.seen = result,
                            !.pc = IF m = "GET" THEN "get" ELSE "done",
                            !.status = IF m = "OPTIONS" THEN 204
                                       ELSE IF m = "PUT" THEN 405 ELSE 0]]
  /\ UNCHANGED <<file, result>>
  /\ PendingFrame

\* Lines 49-58: a POST arrives; a body without content (or id) is answered
\* 400, otherwise the handler goes on to read the store.  The post carries
\* the time of its creation as timestamp.
ArrivePost(r) ==
  /\ data[r].pc = "idle"
  /\ \E content \in {"", "note"} :
       LET post == [id |-> r, content |-> content, timestamp |-> i] IN
       data' = [data EXCEPT ![r] =
                  [@ EXCEPT !.method = "POST",
                            !.seen = result,
                            !.post = post,
                            !.pc = IF content = "" THEN "done" ELSE "get",
                            !.status = IF content = "" THEN 400 ELSE 0]]
  /\ UNCHANGED <<file, result>>
  /\ PendingFrame

\* Lines 29-30 and 60-61: await store.get("posts") settles and the handler
\* parses the value (an absent key is the empty list).
StoreGet(r) ==
  /\ data[r].pc = "get"
  /\ data' = [data EXCEPT ![r] =
                [@ EXCEPT !.posts = file,
                          !.pc = IF data[r].method = "GET" THEN "filter" ELSE "set"]]
  /\ UNCHANGED <<file, result>>
  /\ PendingFrame

\* posts.filter((p) => now - new Date(p.timestamp).getTime() < MAX_AGE_MS)
freshOf(posts, now) == SelectSeq(posts, LAMBDA p : now - p.timestamp < MAX_AGE_MS)

\* Lines 33-38 and 42-46: the GET handler reads the clock and filters; when
\* nothing was filtered out it answers with the fresh posts.
GetFilter(r) ==
  /\ data[r].pc = "filter"
  /\ LET fresh == freshOf(data[r].posts, i) IN
     data' = [data EXCEPT ![r] =
                [@ EXCEPT !.now = i,
                          !.fresh = fresh,
                          !.pc = IF Len(fresh) # Len(data[r].posts) THEN "prune" ELSE "done",
                          !.status = IF Len(fresh) # Len(data[r].posts) THEN 0 ELSE 200]]
  /\ UNCHANGED <<file, result>>
  /\ PendingFrame

\* Lines 39 and 42-46: await store.set("posts", fresh) settles and the GET
\* handler answers with the fresh posts.
GetPrune(r) ==
  /\ data[r].pc = "prune"
  /\ file' = data[r].fresh
  /\ data' = [data EXCEPT ![r] = [@ EXCEPT !.pc = "done", !.status = 200]]
  /\ UNCHANGED result
  /\ PendingFrame

\* Lines 62-69: posts.unshift(post), await store.set("posts", posts) settles
\* and the POST handler answers ok: true.
PostSet(r) ==
  /\ data[r].pc = "set"
  /\ file' = <<data[r].post>> \o data[r].posts
  /\ data' = [data EXCEPT ![r] = [@ EXCEPT !.pc = "done", !.status = 200]]
  /\ result' = result \cup {data[r].post}
  /\ PendingFrame

NextPending ==
  \/ Tick
  \/ \E r \in Requests :
       ArriveOther(r) \/ ArrivePost(r) \/ StoreGet(r) \/ GetFilter(r) \/ GetPrune(r)
         \/ PostSet(r)

SpecPending == InitPending /\ [][NextPending]_vars

\* C28: no acknowledged pending post is lost: a GET that arrived after a
\* POST was answered ok: true returns that post, as long as the post is less
\* than 10 minutes old when the GET reads the clock.
C28_NoAcknowledgedPostLost ==
  pc = "serving" =>
    \A r \in Requests :
      (data[r].method = "GET" /\ data[r].status = 200) =>
        \A p \in data[r].seen :
          (data[r].now - p.timestamp < MAX_AGE_MS) => p \in Members(data[r].fresh)

(***************************************************************************)
(* The posting endpoint: a POST with the password adds a post to the       *)
(* repository's posts file through the store's contents interface.  file   *)
(* is the posts list of the file, runs the sha of its current version (the *)
(* number of commits made), i the clock, arg the environment of the        *)
(* function and data the state of each request's handler.                  *)
(***************************************************************************)
\* The number of requests the posting endpoint receives.
MaxPostings == 2

Postings == 1..MaxPostings

\* process.env: the password is configured, the token may be missing.
Environments ==
  {[POST_PASSWORD |-> "secret", GITHUB_TOKEN |-> token] : token \in {"", "token"}}

\* The bodies of the POST requests: a missing, a blank and a padded content,
\* with and without category and curated.
PostRequests ==
  {[content |-> <<>>, category |-> "", curated |-> FALSE, password |-> "secret"],
   [content |-> <<Space>>, category |-> "thought", curated |-> TRUE, password |-> "secret"],
   [content |-> <<"lesson">>, category |-> "", curated |-> FALSE, password |-> "guess"],
   [content |-> <<"lesson">>, category |-> "thought", curated |-> TRUE, password |-> "secret"],
   [content |-> <<Space, "strategy", Space>>, category |-> "", curated |-> FALSE,
    password |-> "secret"]}

\* A request to the posting endpoint that has not arrived.
NoPosting ==
  [method |-> "none", pc |-> "idle", status |-> 0, error |-> "", body |-> <<>>,
   postsData |-> <<>>, sha |-> 0, newPost |-> <<>>]

InitPosting ==
  /\ file = <<>>
  /\ runs = 0
  /\ i = 0
  /\ arg \in Environments
  /\ data = [r \in Postings |-> NoPosting]
  /\ pc = "posting"
  /\ sorted = <<>> /\ currentThread = <<>> /\ finalPosts = <<>> /\ threadsFound = <<>>
  /\ timeGroups = <<>> /\ inflight = {} /\ reply = NoReply /\ results = <<>>
  /\ arg2 = <<>> /\ result = <<>>

PostingFrame ==
  UNCHANGED <<pc, sorted, i, currentThread, finalPosts, threadsFound, timeGroups,
              inflight, reply, results, arg, arg2, result>>

answer(r, status, error) ==
  [data EXCEPT ![r] = [@ EXCEPT !.pc = "done", !.status = status, !.error = error]]

\* Lines 41-51: OPTIONS is answered 204, any other method but POST 405.
PostingOther(r) ==
  /\ data[r].pc = "idle"
  /\ \E m \in {"OPTIONS", "GET"} :
       data' = [data EXCEPT ![r] =
                  [@ EXCEPT !.method = m,
                            !.pc = "done",
                            !.status = IF m = "OPTIONS" THEN 204 ELSE 405,
                            !.error = IF m = "OPTIONS" THEN "" ELSE "Method not allowed"]]
  /\ UNCHANGED <<file, runs>>
  /\ PostingFrame

\* Lines 53-83: the handler validates the password, the content and the
\* configuration, and then sends the request for the file.
PostingValidate(r) ==
  /\ data[r].pc = "idle"
  /\ \E body \in PostRequests :
       LET arrived == [data EXCEPT ![r] = [@ EXCEPT !.method = "POST", !.body = body]] IN
       data' = [arrived EXCEPT ![r] =
                  IF body.password # arg.POST_PASSWORD
                    THEN [@ EXCEPT !.pc = "done", !.status = 401,
                                   !.error = "Invalid password"]
                  ELSE IF body.content = <<>> \/ length(trim(body.content)) = 0
                    THEN [@ EXCEPT !.pc = "done", !.status = 400,
                                   !.error = "Content is required"]
                  ELSE IF arg.GITHUB_TOKEN = ""
                    THEN [@ EXCEPT !.pc = "done", !.status = 500,
                                   !.error = "Server configuration error"]
                  ELSE [@ EXCEPT !.pc = "fetch"]]
  /\ UNCHANGED <<file, runs>>
  /\ PostingFrame

\* Lines 97-105 and 165-172: the request for the file is answered with an
\* error, or fails.
FetchFails(r) ==
  /\ data[r].pc = "fetch"
  /\ \E error \in {"Failed to fetch posts", "Internal server error"} :
       data' = answer(r, 500, error)
  /\ UNCHANGED <<file, runs>>
  /\ PostingFrame

\* Lines 107-144: the store answers with the file and its sha; the handler
\* builds the new post, puts it at the beginning of its copy of the list and
\* sends the commit with the sha it was given.
FetchFile(r) ==
  /\ data[r].pc = "fetch"
  /\ LET body == data[r].body
         newPost == [id |-> i,
                     content |-> trim(body.content),
                     timestamp |-> i,
                     category |-> IF body.category = "" THEN "update" ELSE body.category,
                     curated |-> body.curated]
     IN data' = [data EXCEPT ![r] =
                   [@ EXCEPT !.pc = "put",
                             !.newPost = newPost,
                             !.postsData = <<newPost>> \o file,
                             !.sha = runs]]
  /\ UNCHANGED <<file, runs>>
  /\ PostingFrame

\* Lines 146-154 and 165-172: the commit is rejected by the store (always so
\* when its sha is not the sha of the file), or the request fails before it
\* reaches the store.
PutFails(r) ==
  /\ data[r].pc = "put"
  /\ \E error \in {"Failed to save post", "Internal server error"} :
       data' = answer(r, 500, error)
  /\ UNCHANGED <<file, runs>>
  /\ PostingFrame

\* Mutant: the store takes a commit whatever its sha.
PutCommit_anySha(r) ==
  /\ data[r].pc = "put"
  /\ file' = data[r].postsData
  /\ runs' = runs + 1
  /\ data' = answer(r, 200, "")
  /\ PostingFrame

\* Lines 126-144 and 156-164: the store takes the commit, whose sha is the
\* sha of the file, and the handler answers 200 success.
PutCommit(r) ==
  /\ data[r].pc = "put"
  /\ data[r].sha = runs
  /\ file' = data[r].postsData
  /\ runs' = runs + 1
  /\ data' = answer(r, 200, "")
  /\ PostingFrame

NextPosting ==
  \/ Tick
  \/ \E r \in Postings :
       PostingOther(r) \/ PostingValidate(r) \/ FetchFails(r) \/ FetchFile(r)
         \/ PutFails(r) \/ PutCommit(r)

SpecPosting == InitPosting /\ [][NextPosting]_vars

\* Request r is answered 200 success in this step.
Succeeds(r) == data[r].status # 200 /\ data'[r].status = 200

====
